---- MODULE Spec2Model ----
(***************************************************************************)
(* my-sns: the feed aggregation routes (GET/POST /api/posts), the like and *)
(* comment routes, and the client components that drive them (PostFeed,    *)
(* PostCard, CommentForm, CommentList).                                    *)
(*                                                                         *)
(* Storage is the Supabase tables posts, likes, comments and users plus    *)
(* the upload bucket.  A route handler is a process held in a session slot *)
(* of req: it performs one storage query per step (every await on the      *)
(* Supabase client is a step), so handlers of different sessions           *)
(* interleave between queries.  A query may be refused by the storage      *)
(* (the handlers' error branches): each step draws that outcome with \E.   *)
(***************************************************************************)
EXTENDS Integers, Sequences, FiniteSets, TLC

VARIABLES
    posts,      \* posts table: set of rows [id, user_id, created_at]
    likes,      \* likes table: set of rows [id, post_id, user_id]
    comments,   \* comments table: set of rows [id, post_id, user_id, content, created_at]
    assets,     \* upload bucket: set of file paths (ids)
    nextId,     \* gen_random_uuid(): the next fresh row id
    clock,      \* now() of the database, the DEFAULT of created_at
    req,        \* session -> the route handler running for it
    budget,     \* number of requests callers may still make
    walk,       \* a client reading the feed page after page
    feed,       \* PostFeed: the component's state and its fetch in flight
    card        \* PostCard with its CommentForm: state and requests in flight

storageVars == <<posts, likes, comments, assets, nextId, clock>>
clientVars == <<walk, feed, card>>
vars == <<posts, likes, comments, assets, nextId, clock, req, budget, walk, feed, card>>

----------------------------------------------------------------------------
(* Bounds *)

MaxRequests == 2        \* requests made in one behaviour of Spec
MaxInitLikes == 1       \* like rows present at the start of Spec
MaxCalls == 1           \* requests made one after the other in SpecRoutes
MaxTaps == 2            \* image taps on the card in SpecCard
MaxClicks == 2          \* clicks on the card's like button in SpecCard
MaxSubmits == 2         \* submissions of the comment form in SpecForm
MaxInserts == 1         \* posts created while the feed is read in SpecLive

----------------------------------------------------------------------------
(* Identities *)

Sessions == {"s1", "s2"}
NoUser == "anon"                      \* auth() gives userId: null
Unsynced == "c9"                      \* a Clerk user with no row in users
ClerkIds == {"c1", "c2"}
Viewers == ClerkIds \cup {Unsynced, NoUser}
NoId == "none"

\* users table: rows [id, clerk_id]; never written by the routes modelled here
users == {[id |-> "u1", clerk_id |-> "c1"], [id |-> "u2", clerk_id |-> "c2"]}

PostIds == {1, 2}
NoPost == 0                           \* request without a post_id
GhostPost == 99                       \* a post_id that names no row
InitTimes == {1, 2}

----------------------------------------------------------------------------
(* Storage queries *)

\* .from("users").select("id").eq("clerk_id", clerkUserId).single()
UserByClerk(c) ==
    LET rows == {u \in users : u.clerk_id = c}
    IN  IF Cardinality(rows) = 1 THEN (CHOOSE u \in rows : TRUE).id ELSE NoId

\* .from("posts").select("id").eq("id", post_id).single()
PostExists(pid) == Cardinality({p \in posts : p.id = pid}) = 1

\* .from("likes").select("id, user_id").eq("post_id", postId).eq("user_id", userId)
LikeRowsOf(pid, uid) == {l \in likes : l.post_id = pid /\ l.user_id = uid}

\* CONSTRAINT likes_unique_post_user UNIQUE (post_id, user_id)
UniqueViolationMut(pid, uid) == FALSE
UniqueViolation(pid, uid) == LikeRowsOf(pid, uid) # {}

\* the maximal elements of a set of rows under created_at
Newest(rows) == {r \in rows : \A q \in rows : q.created_at <= r.created_at}

\* .order("created_at", { ascending: false }): every sequence of the rows in
\* descending created_at; rows of equal created_at come in any order, and the
\* order may differ from one query to the next
RECURSIVE DescOrders(_)
DescOrders(rows) ==
    IF rows = {} THEN {<<>>}
    ELSE UNION {{<<r>> \o s : s \in DescOrders(rows \ {r})} : r \in Newest(rows)}

Min(a, b) == IF a < b THEN a ELSE b

\* .range(from, to) on an ordered result
Range(s, from, to) == SubSeq(s, from + 1, Min(to + 1, Len(s)))

\* .limit(n) on an ordered result
Limit(s, n) == SubSeq(s, 1, Min(n, Len(s)))

SeqToSet(s) == {s[i] : i \in 1..Len(s)}

----------------------------------------------------------------------------
(* Route handlers: common *)

\* A string is kept as its shape: lead and trail are the numbers of white-space
\* characters at its ends, core is the length of what lies between them (0 when
\* the string is empty or all white space, and then trail = 0).
NoContent == [lead |-> 0, core |-> 0, trail |-> 0]

\* content.length
StrLen(c) == c.lead + c.core + c.trail

\* content.trim()
Trim(c) == [lead |-> 0, core |-> c.core, trail |-> 0]

IdleReq ==
    [kind |-> "none", pc |-> "idle", viewer |-> NoUser,
     post_id |-> NoPost, comment_id |-> 0, content |-> NoContent,
     image |-> "none", caption |-> 0,
     offset |-> 0, limit |-> 0,
     userId |-> NoId, row |-> 0, rowOwner |-> NoId,
     page |-> <<>>, likesData |-> {}, likesOk |-> FALSE,
     commentsData |-> {}, commentsOk |-> FALSE,
     userLikes |-> {}, userLikesOk |-> FALSE,
     previews |-> <<>>, previewOk |-> TRUE, joined |-> FALSE,
     removeOk |-> FALSE,
     status |-> 0, body |-> <<>>, total |-> 0,
     touched |-> 0,         \* storage queries issued so far
     likesSeen |-> {},      \* likes table when the like query ran
     commentsSeen |-> {},   \* comments table when the comment query ran
     existed |-> FALSE,     \* the row was there when the write ran
     answered |-> TRUE]     \* no query of this request was refused

FinishedMut(s) == FALSE
Finished(s) == req[s].kind # "none" /\ req[s].pc = "done"

\* NextResponse.json(..., { status })
Respond(r, st) == [r EXCEPT !.pc = "done", !.status = st]

\* if (!clerkUserId) return 401
AuthenticatedMut(viewer) == TRUE
Authenticated(viewer) == viewer # NoUser

\* a request of some caller arrives on an idle session and runs the handler up
\* to its first storage query
Start(s, r) ==
    /\ req[s].kind = "none" /\ budget > 0
    /\ budget' = budget - 1
    /\ req' = [req EXCEPT ![s] = r]
    /\ UNCHANGED <<storageVars, clientVars>>

\* the client has read the response
Collect(s) ==
    /\ Finished(s)
    /\ req' = [req EXCEPT ![s] = IdleReq]
    /\ UNCHANGED <<storageVars, budget, clientVars>>

\* userError || !userData  ->  404
UserLookup(s, next) ==
    /\ req[s].pc = "user"
    /\ \E ok \in BOOLEAN :
        LET uid == UserByClerk(req[s].viewer)
            r == [req[s] EXCEPT !.touched = @ + 1, !.answered = @ /\ ok]
        IN  req' = [req EXCEPT ![s] =
                IF ~ok \/ uid = NoId THEN Respond(r, 404)
                ELSE [r EXCEPT !.userId = uid, !.pc = next]]
    /\ UNCHANGED <<storageVars, budget, clientVars>>

----------------------------------------------------------------------------
(* POST /api/likes *)

\* auth(); request.json(); if (!post_id || typeof post_id !== "string") -> 400
LikePostArrive(viewer, pid) ==
    LET r == [IdleReq EXCEPT !.kind = "likePost", !.viewer = viewer, !.post_id = pid]
    IN  IF ~Authenticated(viewer) THEN Respond(r, 401)
        ELSE IF pid = NoPost THEN Respond(r, 400)
        ELSE [r EXCEPT !.pc = "user"]

LikePostStart(s, viewer, pid) == Start(s, LikePostArrive(viewer, pid))

LikePostUser(s) == req[s].kind = "likePost" /\ UserLookup(s, "post")

\* postError || !postData  ->  404
LikePostCheck(s) ==
    /\ req[s].kind = "likePost" /\ req[s].pc = "post"
    /\ \E ok \in BOOLEAN :
        LET r == [req[s] EXCEPT !.touched = @ + 1, !.answered = @ /\ ok]
        IN  req' = [req EXCEPT ![s] =
                IF ~ok \/ ~PostExists(r.post_id) THEN Respond(r, 404)
                ELSE [r EXCEPT !.pc = "insert"]]
    /\ UNCHANGED <<storageVars, budget, clientVars>>

\* likeError.code === "23505" -> 409; any other likeError -> 500; else 200
LikeInsertStatus(ok, dup) == IF ~ok THEN 500 ELSE IF dup THEN 409 ELSE 200

LikePostInsert(s) ==
    /\ req[s].kind = "likePost" /\ req[s].pc = "insert"
    /\ \E ok \in BOOLEAN :
        LET r == [req[s] EXCEPT !.touched = @ + 1, !.answered = @ /\ ok,
                                !.existed = LikeRowsOf(req[s].post_id, req[s].userId) # {},
                                !.likesSeen = likes]
            dup == UniqueViolation(r.post_id, r.userId)
            st == LikeInsertStatus(ok, dup)
        IN  /\ req' = [req EXCEPT ![s] = Respond([r EXCEPT !.row = nextId], st)]
            /\ IF ok /\ ~dup
               THEN /\ likes' = likes \cup
                        {[id |-> nextId, post_id |-> r.post_id, user_id |-> r.userId]}
                    /\ nextId' = nextId + 1
               ELSE UNCHANGED <<likes, nextId>>
    /\ UNCHANGED <<posts, comments, assets, clock, budget, clientVars>>

----------------------------------------------------------------------------
(* DELETE /api/likes/[postId] *)

\* auth(); await params; if (!postId) -> 400
LikeDeleteArrive(viewer, pid) ==
    LET r == [IdleReq EXCEPT !.kind = "likeDelete", !.viewer = viewer, !.post_id = pid]
    IN  IF ~Authenticated(viewer) THEN Respond(r, 401)
        ELSE IF pid = NoPost THEN Respond(r, 400)
        ELSE [r EXCEPT !.pc = "user"]

LikeDeleteStart(s, viewer, pid) == Start(s, LikeDeleteArrive(viewer, pid))

LikeDeleteUser(s) == req[s].kind = "likeDelete" /\ UserLookup(s, "find")

\* the like row the handler looks up: scoped to the caller by .eq("user_id", userId)
LikeLookup(pid, uid) == LikeRowsOf(pid, uid)

\* likeCheckError || !likeData -> 404; likeData.user_id !== userId -> 403
LikeDeleteFind(s) ==
    /\ req[s].kind = "likeDelete" /\ req[s].pc = "find"
    /\ \E ok \in BOOLEAN :
        LET r == [req[s] EXCEPT !.touched = @ + 1, !.answered = @ /\ ok,
                                !.likesSeen = likes]
            found == LikeLookup(r.post_id, r.userId)
        IN  IF ~ok \/ Cardinality(found) # 1
            THEN req' = [req EXCEPT ![s] = Respond(r, 404)]
            ELSE \E l \in found :
                    req' = [req EXCEPT ![s] =
                        IF l.user_id # r.userId THEN Respond(r, 403)
                        ELSE [r EXCEPT !.row = l.id, !.rowOwner = l.user_id,
                                       !.pc = "delete"]]
    /\ UNCHANGED <<storageVars, budget, clientVars>>

\* .from("likes").delete().eq("id", likeData.id); deleteError -> 500
LikeDeleteRow(s) ==
    /\ req[s].kind = "likeDelete" /\ req[s].pc = "delete"
    /\ \E ok \in BOOLEAN :
        LET r == [req[s] EXCEPT !.touched = @ + 1, !.answered = @ /\ ok,
                                !.existed = \E l \in likes : l.id = req[s].row]
        IN  /\ req' = [req EXCEPT ![s] = Respond(r, IF ok THEN 200 ELSE 500)]
            /\ likes' = IF ok THEN {l \in likes : l.id # r.row} ELSE likes
    /\ UNCHANGED <<posts, comments, assets, nextId, clock, budget, clientVars>>

----------------------------------------------------------------------------
(* GET /api/posts?limit=&offset= *)

\* auth() is optional here: without a Clerk user no users query is made
PostsGetArrive(viewer, offset, limit) ==
    [IdleReq EXCEPT !.kind = "postsGet", !.viewer = viewer,
                    !.offset = offset, !.limit = limit,
                    !.pc = IF Authenticated(viewer) THEN "user" ELSE "posts"]

PostsGetStart(s, viewer, offset, limit) ==
    Start(s, PostsGetArrive(viewer, offset, limit))

\* const { data: userData } = ...single(); the error is not looked at
PostsGetUser(s) ==
    /\ req[s].kind = "postsGet" /\ req[s].pc = "user"
    /\ \E ok \in BOOLEAN :
        req' = [req EXCEPT ![s] =
            [@ EXCEPT !.touched = @ + 1, !.answered = @ /\ ok,
                      !.userId = IF ok THEN UserByClerk(req[s].viewer) ELSE NoId,
                      !.pc = "posts"]]
    /\ UNCHANGED <<storageVars, budget, clientVars>>

\* .order("created_at", { ascending: false }).range(offset, offset + limit - 1)
PostsPage(order, offset, limit) == Range(order, offset, offset + limit - 1)

\* postsError -> 500; no rows -> { posts: [], total: 0 }
PostsGetPosts(s) ==
    /\ req[s].kind = "postsGet" /\ req[s].pc = "posts"
    /\ \E ok \in BOOLEAN : \E order \in DescOrders(posts) :
        LET r == [req[s] EXCEPT !.touched = @ + 1, !.answered = @ /\ ok]
            page == PostsPage(order, r.offset, r.limit)
        IN  req' = [req EXCEPT ![s] =
                IF ~ok THEN Respond(r, 500)
                ELSE IF Len(page) = 0 THEN Respond(r, 200)
                ELSE [r EXCEPT !.page = page, !.pc = "likes"]]
    /\ UNCHANGED <<storageVars, budget, clientVars>>

PostIdsOf(page) == {page[i].id : i \in 1..Len(page)}

\* .from("likes").select("post_id").in("post_id", postIds); likesError is logged
PostsGetLikes(s) ==
    /\ req[s].kind = "postsGet" /\ req[s].pc = "likes"
    /\ \E ok \in BOOLEAN :
        req' = [req EXCEPT ![s] =
            [@ EXCEPT !.touched = @ + 1, !.answered = @ /\ ok,
                      !.likesOk = ok, !.likesSeen = likes,
                      !.likesData = IF ok
                          THEN {l \in likes : l.post_id \in PostIdsOf(req[s].page)}
                          ELSE {},
                      !.pc = "comments"]]
    /\ UNCHANGED <<storageVars, budget, clientVars>>

\* .from("comments").select("post_id").in("post_id", postIds); commentsError is logged
PostsGetComments(s) ==
    /\ req[s].kind = "postsGet" /\ req[s].pc = "comments"
    /\ \E ok \in BOOLEAN :
        req' = [req EXCEPT ![s] =
            [@ EXCEPT !.touched = @ + 1, !.answered = @ /\ ok,
                      !.commentsOk = ok, !.commentsSeen = comments,
                      !.commentsData = IF ok
                          THEN {c \in comments : c.post_id \in PostIdsOf(req[s].page)}
                          ELSE {},
                      !.pc = IF req[s].userId # NoId THEN "userLikes" ELSE "preview"]]
    /\ UNCHANGED <<storageVars, budget, clientVars>>

\* if (currentUserId) { ...eq("user_id", currentUserId).in("post_id", postIds) }
PostsGetUserLikes(s) ==
    /\ req[s].kind = "postsGet" /\ req[s].pc = "userLikes"
    /\ \E ok \in BOOLEAN :
        req' = [req EXCEPT ![s] =
            [@ EXCEPT !.touched = @ + 1, !.answered = @ /\ ok,
                      !.userLikesOk = ok,
                      !.userLikes = IF ok
                          THEN {l.post_id : l \in
                                  {x \in likes : /\ x.user_id = req[s].userId
                                                 /\ x.post_id \in PostIdsOf(req[s].page)}}
                          ELSE {},
                      !.pc = "preview"]]
    /\ UNCHANGED <<storageVars, budget, clientVars>>

\* likesCountMap.get(post.id) || 0, commentsCountMap.get(post.id) || 0
CountFor(rows, pid) == Cardinality({x \in rows : x.post_id = pid})

\* const isLiked = currentUserId ? userLikes.includes(post.id) : false
IsLiked(uid, userLikes, pid) == IF uid # NoId THEN pid \in userLikes ELSE FALSE

\* posts.map(...): the PostWithDetails of the response
PostsWithDetails(r, previews) ==
    [i \in 1..Len(r.page) |->
        [id |-> r.page[i].id,
         created_at |-> r.page[i].created_at,
         likes_count |-> CountFor(r.likesData, r.page[i].id),
         comments_count |-> CountFor(r.commentsData, r.page[i].id),
         is_liked |-> IsLiked(r.userId, r.userLikes, r.page[i].id),
         comments_preview |-> previews[i]]]

\* .eq("post_id", postId).order("created_at", { ascending: false }).limit(2)
PreviewsOf(pid) ==
    {Limit(o, 2) : o \in DescOrders({c \in comments : c.post_id = pid})}

\* for (const postId of postIds) { ... }: one query per post of the page; a
\* refused query leaves no entry in commentsPreviewMap, read back as [].
\* After the last one the response is assembled.
PostsGetPreview(s) ==
    /\ req[s].kind = "postsGet" /\ req[s].pc = "preview"
    /\ \E ok \in BOOLEAN :
       \E pv \in PreviewsOf(req[s].page[Len(req[s].previews) + 1].id) :
        LET r == [req[s] EXCEPT !.touched = @ + 1, !.answered = @ /\ ok,
                                !.previewOk = @ /\ ok,
                                !.previews = Append(@, IF ok THEN pv ELSE <<>>)]
        IN  req' = [req EXCEPT ![s] =
                IF Len(r.previews) < Len(r.page) THEN r
                ELSE Respond([r EXCEPT !.body = PostsWithDetails(r, r.previews),
                                       !.total = Len(r.page)], 200)]
    /\ UNCHANGED <<storageVars, budget, clientVars>>

----------------------------------------------------------------------------
(* POST /api/comments *)

MaxCommentLength == 1000

\* !content || typeof content !== "string" || content.trim().length === 0
ContentMissingMut(c) == StrLen(c) = 0
ContentMissing(c) == StrLen(c) = 0 \/ StrLen(Trim(c)) = 0

\* content.length > 1000
ContentTooLong(c) == StrLen(c) > MaxCommentLength

\* auth(), then the checks of post_id and content, all before the first query
CommentPostArrive(viewer, pid, content) ==
    LET r == [IdleReq EXCEPT !.kind = "commentPost", !.viewer = viewer,
                             !.post_id = pid, !.content = content]
    IN  IF ~Authenticated(viewer) THEN Respond(r, 401)
        ELSE IF pid = NoPost THEN Respond(r, 400)
        ELSE IF ContentMissing(content) THEN Respond(r, 400)
        ELSE IF ContentTooLong(content) THEN Respond(r, 400)
        ELSE [r EXCEPT !.pc = "user"]

CommentPostStart(s, viewer, pid, content) ==
    Start(s, CommentPostArrive(viewer, pid, content))

CommentPostUser(s) == req[s].kind = "commentPost" /\ UserLookup(s, "post")

CommentPostCheck(s) ==
    /\ req[s].kind = "commentPost" /\ req[s].pc = "post"
    /\ \E ok \in BOOLEAN :
        LET r == [req[s] EXCEPT !.touched = @ + 1, !.answered = @ /\ ok]
        IN  req' = [req EXCEPT ![s] =
                IF ~ok \/ ~PostExists(r.post_id) THEN Respond(r, 404)
                ELSE [r EXCEPT !.pc = "insert"]]
    /\ UNCHANGED <<storageVars, budget, clientVars>>

\* .insert({ post_id, user_id: userId, content: content.trim() }); commentError -> 500.
\* created_at DEFAULT now(): the database clock has moved on since the last
\* insert, or it has not.
CommentPostInsert(s) ==
    /\ req[s].kind = "commentPost" /\ req[s].pc = "insert"
    /\ \E ok \in BOOLEAN : \E t \in {clock, clock + 1} :
        LET r == [req[s] EXCEPT !.touched = @ + 1, !.answered = @ /\ ok]
        IN  IF ok
            THEN /\ comments' = comments \cup
                      {[id |-> nextId, post_id |-> r.post_id, user_id |-> r.userId,
                        content |-> Trim(r.content), created_at |-> t]}
                 /\ nextId' = nextId + 1
                 /\ clock' = t
                 /\ req' = [req EXCEPT ![s] = [r EXCEPT !.row = nextId, !.pc = "join"]]
            ELSE /\ req' = [req EXCEPT ![s] = Respond(r, 500)]
                 /\ UNCHANGED <<comments, nextId, clock>>
    /\ UNCHANGED <<posts, likes, assets, budget, clientVars>>

\* the select with the author joined; on joinError the comment is returned with
\* user: null, otherwise as a CommentWithUser; 201 either way
CommentPostJoin(s) ==
    /\ req[s].kind = "commentPost" /\ req[s].pc = "join"
    /\ \E ok \in BOOLEAN :
        LET r == [req[s] EXCEPT !.touched = @ + 1, !.answered = @ /\ ok]
            found == {c \in comments : c.id = r.row}
        IN  req' = [req EXCEPT ![s] =
                Respond([r EXCEPT !.joined = ok /\ found # {}], 201)]
    /\ UNCHANGED <<storageVars, budget, clientVars>>

----------------------------------------------------------------------------
(* DELETE /api/comments/[commentId] *)

NoComment == 0
GhostComment == 98

\* auth(); await params; if (!commentId || typeof commentId !== "string") -> 400
CommentDeleteArrive(viewer, cid) ==
    LET r == [IdleReq EXCEPT !.kind = "commentDelete", !.viewer = viewer,
                             !.comment_id = cid]
    IN  IF ~Authenticated(viewer) THEN Respond(r, 401)
        ELSE IF cid = NoComment THEN Respond(r, 400)
        ELSE [r EXCEPT !.pc = "user"]

CommentDeleteStart(s, viewer, cid) == Start(s, CommentDeleteArrive(viewer, cid))

CommentDeleteUser(s) == req[s].kind = "commentDelete" /\ UserLookup(s, "find")

\* commentData.user_id !== userId -> 403
IsAuthorMut(owner, uid) == TRUE
IsAuthor(owner, uid) == owner = uid

\* .from("comments").select("id, user_id").eq("id", commentId).single();
\* commentError || !commentData -> 404
CommentDeleteFind(s) ==
    /\ req[s].kind = "commentDelete" /\ req[s].pc = "find"
    /\ \E ok \in BOOLEAN :
        LET r == [req[s] EXCEPT !.touched = @ + 1, !.answered = @ /\ ok,
                                !.commentsSeen = comments]
            found == {c \in comments : c.id = r.comment_id}
        IN  IF ~ok \/ Cardinality(found) # 1
            THEN req' = [req EXCEPT ![s] = Respond(r, 404)]
            ELSE \E c \in found :
                    req' = [req EXCEPT ![s] =
                        IF ~IsAuthor(c.user_id, r.userId) THEN Respond(r, 403)
                        ELSE [r EXCEPT !.row = c.id, !.rowOwner = c.user_id,
                                       !.pc = "delete"]]
    /\ UNCHANGED <<storageVars, budget, clientVars>>

\* .from("comments").delete().eq("id", commentId); deleteError -> 500
CommentDeleteRow(s) ==
    /\ req[s].kind = "commentDelete" /\ req[s].pc = "delete"
    /\ \E ok \in BOOLEAN :
        LET r == [req[s] EXCEPT !.touched = @ + 1, !.answered = @ /\ ok,
                                !.existed = \E c \in comments : c.id = req[s].comment_id]
        IN  /\ req' = [req EXCEPT ![s] = Respond(r, IF ok THEN 200 ELSE 500)]
            /\ comments' = IF ok THEN {c \in comments : c.id # r.comment_id} ELSE comments
    /\ UNCHANGED <<posts, likes, assets, nextId, clock, budget, clientVars>>

----------------------------------------------------------------------------
(* POST /api/posts *)

MaxCaptionLength == 2200

\* validateImageFile: size <= MAX_FILE_SIZE and type in ALLOWED_IMAGE_TYPES
Images == {"none", "valid", "tooBig", "badType"}
ValidImage(img) == img = "valid"

\* auth(); if (!clerkUserId) -> 401
PostCreateArrive(viewer, img, captionLen) ==
    LET r == [IdleReq EXCEPT !.kind = "postCreate", !.viewer = viewer,
                             !.image = img, !.caption = captionLen]
    IN  IF ~Authenticated(viewer) THEN Respond(r, 401)
        ELSE [r EXCEPT !.pc = "user"]

PostCreateStart(s, viewer, img, captionLen) ==
    Start(s, PostCreateArrive(viewer, img, captionLen))

\* the users lookup, then the form checks: no image, caption too long, bad image
PostCreateUser(s) ==
    /\ req[s].kind = "postCreate" /\ req[s].pc = "user"
    /\ \E ok \in BOOLEAN :
        LET uid == UserByClerk(req[s].viewer)
            r == [req[s] EXCEPT !.touched = @ + 1, !.answered = @ /\ ok]
        IN  req' = [req EXCEPT ![s] =
                IF ~ok \/ uid = NoId THEN Respond(r, 404)
                ELSE IF r.image = "none" THEN Respond(r, 400)
                ELSE IF r.caption > MaxCaptionLength THEN Respond(r, 400)
                ELSE IF ~ValidImage(r.image) THEN Respond(r, 400)
                ELSE [r EXCEPT !.userId = uid, !.pc = "upload"]]
    /\ UNCHANGED <<storageVars, budget, clientVars>>

\* uploadImageToStorage: throws on uploadError, caught by the handler -> 500
PostCreateUpload(s) ==
    /\ req[s].kind = "postCreate" /\ req[s].pc = "upload"
    /\ \E ok \in BOOLEAN :
        LET r == [req[s] EXCEPT !.touched = @ + 1, !.answered = @ /\ ok]
        IN  IF ok
            THEN /\ assets' = assets \cup {nextId}
                 /\ nextId' = nextId + 1
                 /\ req' = [req EXCEPT ![s] = [r EXCEPT !.row = nextId, !.pc = "insert"]]
            ELSE /\ req' = [req EXCEPT ![s] = Respond(r, 500)]
                 /\ UNCHANGED <<assets, nextId>>
    /\ UNCHANGED <<posts, likes, comments, clock, budget, clientVars>>

\* .from("posts").insert(...); postError -> remove the uploaded file, then 500
PostCreateInsert(s) ==
    /\ req[s].kind = "postCreate" /\ req[s].pc = "insert"
    /\ \E ok \in BOOLEAN : \E t \in {clock, clock + 1} :
        LET r == [req[s] EXCEPT !.touched = @ + 1, !.answered = @ /\ ok]
        IN  IF ok
            THEN /\ posts' = posts \cup
                      {[id |-> nextId, user_id |-> r.userId, created_at |-> t,
                        image |-> r.row]}
                 /\ nextId' = nextId + 1
                 /\ clock' = t
                 /\ req' = [req EXCEPT ![s] = Respond(r, 201)]
            ELSE /\ req' = [req EXCEPT ![s] = [r EXCEPT !.pc = "remove"]]
                 /\ UNCHANGED <<posts, nextId, clock>>
    /\ UNCHANGED <<likes, comments, assets, budget, clientVars>>

\* .remove([uploadResult.filePath])
RemoveAssetMut(files, filePath) == files
RemoveAsset(files, filePath) == files \ {filePath}

\* storage.from(bucket).remove([filePath]): its outcome is not looked at
PostCreateRemove(s) ==
    /\ req[s].kind = "postCreate" /\ req[s].pc = "remove"
    /\ \E ok \in BOOLEAN :
        LET r == [req[s] EXCEPT !.touched = @ + 1, !.answered = @ /\ ok,
                                !.removeOk = ok]
        IN  /\ assets' = IF ok THEN RemoveAsset(assets, r.row) ELSE assets
            /\ req' = [req EXCEPT ![s] = Respond(r, 500)]
    /\ UNCHANGED <<posts, likes, comments, nextId, clock, budget, clientVars>>

----------------------------------------------------------------------------
(* Initial storage *)

\* the rows the tables may hold at the start: two posts, likes on them by the
\* two users, comments on the first post
InitPosts(t2) ==
    {[id |-> 1, user_id |-> "u1", created_at |-> 1, image |-> 3],
     [id |-> 2, user_id |-> "u2", created_at |-> t2, image |-> 4]}

InitLikeRows ==
    {[id |-> 11, post_id |-> 1, user_id |-> "u1"],
     [id |-> 12, post_id |-> 1, user_id |-> "u2"],
     [id |-> 13, post_id |-> 2, user_id |-> "u1"]}

Word == [lead |-> 0, core |-> 1, trail |-> 0]

InitCommentRows ==
    {[id |-> 21, post_id |-> 1, user_id |-> "u1", content |-> Word, created_at |-> 1],
     [id |-> 22, post_id |-> 1, user_id |-> "u2", content |-> Word, created_at |-> 2],
     [id |-> 23, post_id |-> 1, user_id |-> "u1", content |-> Word, created_at |-> 2]}

FirstFreeId == 31

InitIdle ==
    /\ assets = {3, 4}
    /\ nextId = FirstFreeId
    /\ clock = 2
    /\ req = [s \in Sessions |-> IdleReq]

\* client components that are not mounted
NoWalk == [limit |-> 0, viewer |-> NoUser, offset |-> 0, got |-> <<>>, done |-> TRUE]
NoFeed == [mounted |-> FALSE]
NoCard == [mounted |-> FALSE]

Init ==
    /\ posts = InitPosts(2)
    /\ \E ls \in SUBSET InitLikeRows :
        /\ Cardinality(ls) <= MaxInitLikes
        /\ likes = ls
    /\ comments = {}
    /\ budget = MaxRequests
    /\ InitIdle
    /\ walk = NoWalk /\ feed = NoFeed /\ card = NoCard

----------------------------------------------------------------------------
(* Spec: the like routes, called from two sessions whose handlers interleave *)

PostArgs == PostIds \cup {GhostPost, NoPost}

Next ==
    \E s \in Sessions :
        \/ \E v \in Viewers, pid \in PostArgs : LikePostStart(s, v, pid)
        \/ LikePostUser(s)
        \/ LikePostCheck(s)
        \/ LikePostInsert(s)
        \/ \E v \in Viewers, pid \in PostArgs : LikeDeleteStart(s, v, pid)
        \/ LikeDeleteUser(s)
        \/ LikeDeleteFind(s)
        \/ LikeDeleteRow(s)
        \/ Collect(s)

Spec == Init /\ [][Next]_vars

----------------------------------------------------------------------------
(* SpecRoutes: every route, called one request after the other *)

Contents ==
    {Word,
     [lead |-> 1, core |-> 0, trail |-> 0],
     [lead |-> 1, core |-> MaxCommentLength - 1, trail |-> 0],
     [lead |-> 1, core |-> MaxCommentLength, trail |-> 0],
     [lead |-> 0, core |-> MaxCommentLength + 1, trail |-> 0]}

CommentArgs == {c.id : c \in comments} \cup {GhostComment, NoComment}

Captions == {0, MaxCaptionLength, MaxCaptionLength + 1}

Offsets == {0, 1}
Limits == {1, 2}

Caller == "s1"

NextRoutes ==
    \/ \E v \in Viewers, pid \in PostArgs : LikePostStart(Caller, v, pid)
    \/ LikePostUser(Caller)
    \/ LikePostCheck(Caller)
    \/ LikePostInsert(Caller)
    \/ \E v \in Viewers, pid \in PostArgs : LikeDeleteStart(Caller, v, pid)
    \/ LikeDeleteUser(Caller)
    \/ LikeDeleteFind(Caller)
    \/ LikeDeleteRow(Caller)
    \/ \E v \in Viewers, off \in Offsets, lim \in Limits : PostsGetStart(Caller, v, off, lim)
    \/ PostsGetUser(Caller)
    \/ PostsGetPosts(Caller)
    \/ PostsGetLikes(Caller)
    \/ PostsGetComments(Caller)
    \/ PostsGetUserLikes(Caller)
    \/ PostsGetPreview(Caller)
    \/ \E v \in Viewers, pid \in PostArgs, c \in Contents : CommentPostStart(Caller, v, pid, c)
    \/ CommentPostUser(Caller)
    \/ CommentPostCheck(Caller)
    \/ CommentPostInsert(Caller)
    \/ CommentPostJoin(Caller)
    \/ \E v \in Viewers, cid \in CommentArgs : CommentDeleteStart(Caller, v, cid)
    \/ CommentDeleteUser(Caller)
    \/ CommentDeleteFind(Caller)
    \/ CommentDeleteRow(Caller)
    \/ \E v \in Viewers, img \in Images, cap \in Captions : PostCreateStart(Caller, v, img, cap)
    \/ PostCreateUser(Caller)
    \/ PostCreateUpload(Caller)
    \/ PostCreateInsert(Caller)
    \/ PostCreateRemove(Caller)
    \/ Collect(Caller)

InitRoutes ==
    /\ \E t2 \in InitTimes : posts = InitPosts(t2)
    /\ likes \in {{}, {l \in InitLikeRows : l.id = 11}, InitLikeRows}
    /\ comments \in {{}, {c \in InitCommentRows : c.id = 21}, InitCommentRows}
    /\ budget = MaxCalls
    /\ InitIdle
    /\ walk = NoWalk /\ feed = NoFeed /\ card = NoCard

SpecRoutes == InitRoutes /\ [][NextRoutes]_vars

----------------------------------------------------------------------------
(* SpecPaging: a client reads the whole feed, page after page, from tables
   that do not change *)

\* the client asks for the page at its offset:
\* GET /api/posts?limit=<limit>&offset=<offset>
WalkFetch ==
    /\ ~walk.done
    /\ req[Caller].kind = "none"
    /\ req' = [req EXCEPT ![Caller] =
                  PostsGetArrive(walk.viewer, walk.offset, walk.limit)]
    /\ UNCHANGED <<storageVars, budget, walk, feed, card>>

\* the response is read: a page is appended and the offset moves on by limit; an
\* under-full page ends the walk; a failed request is made again
WalkTake ==
    /\ ~walk.done
    /\ Finished(Caller)
    /\ LET r == req[Caller]
       IN  walk' = IF r.status # 200 THEN walk
                   ELSE [walk EXCEPT
                           !.got = @ \o [i \in 1..Len(r.body) |-> r.body[i].id],
                           !.offset = @ + walk.limit,
                           !.done = Len(r.body) < walk.limit]
    /\ req' = [req EXCEPT ![Caller] = IdleReq]
    /\ UNCHANGED <<storageVars, budget, feed, card>>

WalkTimes == 1..3
WalkLimits == {1, 2, 3}

\* three posts whose created_at are drawn freely, equal ones included
WalkPosts(t) ==
    {[id |-> i, user_id |-> "u1", created_at |-> t[i], image |-> 3] : i \in 1..3}

InitPaging ==
    /\ \E t \in [1..3 -> WalkTimes] : posts = WalkPosts(t)
    /\ likes \in {{}, {l \in InitLikeRows : l.id = 11}}
    /\ comments = {}
    /\ budget = 0
    /\ InitIdle
    /\ \E lim \in WalkLimits, v \in {NoUser, "c1"} :
          walk = [limit |-> lim, viewer |-> v, offset |-> 0, got |-> <<>>,
                  done |-> FALSE]
    /\ feed = NoFeed /\ card = NoCard

NextPaging ==
    \/ WalkFetch
    \/ PostsGetUser(Caller)
    \/ PostsGetPosts(Caller)
    \/ PostsGetLikes(Caller)
    \/ PostsGetComments(Caller)
    \/ PostsGetUserLikes(Caller)
    \/ PostsGetPreview(Caller)
    \/ WalkTake

SpecPaging == InitPaging /\ [][NextPaging]_vars

----------------------------------------------------------------------------
(* SpecLive: a client reads the feed page after page while another session
   creates posts through POST /api/posts *)

Author == "s2"
LiveLimits == {1, 2}

\* two posts of distinct created_at, the database clock at the newest of them
InitLive ==
    /\ posts = InitPosts(2)
    /\ likes = {}
    /\ comments = {}
    /\ budget = MaxInserts
    /\ InitIdle
    /\ \E lim \in LiveLimits :
          walk = [limit |-> lim, viewer |-> NoUser, offset |-> 0, got |-> <<>>,
                  done |-> FALSE]
    /\ feed = NoFeed /\ card = NoCard

NextLive ==
    \/ WalkFetch
    \/ PostsGetPosts(Caller)
    \/ PostsGetLikes(Caller)
    \/ PostsGetComments(Caller)
    \/ PostsGetPreview(Caller)
    \/ WalkTake
    \/ PostCreateStart(Author, "c2", "valid", 0)
    \/ PostCreateUser(Author)
    \/ PostCreateUpload(Author)
    \/ PostCreateInsert(Author)
    \/ PostCreateRemove(Author)
    \/ Collect(Author)

SpecLive == InitLive /\ [][NextLive]_vars

----------------------------------------------------------------------------
(* PostFeed *)

POSTS_PER_PAGE == 10

\* response.ok
ResponseOkMut(st) == TRUE
ResponseOk(st) == st >= 200 /\ st <= 299

\* the useState initial values; fetching holds the arguments of the fetchPosts
\* call in flight, lastPage the length of the page the last successful fetch got,
\* dropped whether a visibility signal has arrived while a fetch was in flight
FreshFeed(viewer) ==
    [mounted |-> TRUE, viewer |-> viewer, effect |-> TRUE,
     posts |-> <<>>, loading |-> TRUE, error |-> FALSE, hasLoaded |-> FALSE,
     offset |-> 0, hasMore |-> TRUE, isLoadingMore |-> FALSE,
     fetching |-> [on |-> FALSE, currentOffset |-> 0, append |-> FALSE],
     lastPage |-> -1, dropped |-> FALSE]

\* fetchPosts(currentOffset, append) up to its await fetch(...)
FetchPosts(f, currentOffset, append) ==
    LET g == IF append THEN [f EXCEPT !.isLoadingMore = TRUE]
             ELSE [f EXCEPT !.loading = TRUE, !.error = FALSE, !.hasLoaded = FALSE]
    IN  [g EXCEPT !.fetching =
            [on |-> TRUE, currentOffset |-> currentOffset, append |-> append]]

\* what the component renders
FeedView(f) ==
    IF f.loading \/ ~f.hasLoaded THEN "skeleton"
    ELSE IF f.error THEN "error"
    ELSE IF f.hasLoaded /\ Len(f.posts) = 0 THEN "empty"
    ELSE "list"

\* useEffect(() => { fetchPosts(0, false) }, [fetchPosts])
FeedMount ==
    /\ feed.mounted /\ feed.effect
    /\ req[Caller].kind = "none"
    /\ feed' = [FetchPosts(feed, 0, FALSE) EXCEPT !.effect = FALSE]
    /\ req' = [req EXCEPT ![Caller] = PostsGetArrive(feed.viewer, 0, POSTS_PER_PAGE)]
    /\ UNCHANGED <<storageVars, budget, walk, card>>

\* const hasMoreData = total > 0 ? newOffset < total && length === POSTS_PER_PAGE
\*                               : length === POSTS_PER_PAGE
HasMoreData(total, newOffset, length) ==
    IF total > 0 THEN newOffset < total /\ length = POSTS_PER_PAGE
    ELSE length = POSTS_PER_PAGE

\* const newOffset = currentOffset + postsArray.length
NewOffsetMut(currentOffset, length) == currentOffset + POSTS_PER_PAGE
NewOffset(currentOffset, length) == currentOffset + length

\* the rest of fetchPosts once the fetch has resolved (delivered) or rejected:
\* the try block after the await, the catch block, the finally block
FeedSettle ==
    /\ feed.mounted /\ feed.fetching.on
    /\ Finished(Caller) /\ req[Caller].kind = "postsGet"
    /\ \E delivered \in BOOLEAN :
        LET r == req[Caller]
            a == feed.fetching
            ids == [i \in 1..Len(r.body) |-> r.body[i].id]
            newOffset == NewOffset(a.currentOffset, Len(ids))
            got == IF delivered /\ ResponseOk(r.status)
                   THEN [feed EXCEPT
                           !.posts = IF a.append THEN @ \o ids ELSE ids,
                           !.hasMore = HasMoreData(r.total, newOffset, Len(ids)),
                           !.offset = newOffset,
                           !.hasLoaded = IF a.append THEN @ ELSE TRUE,
                           !.lastPage = Len(ids)]
                   ELSE [feed EXCEPT
                           !.error = TRUE,
                           !.hasLoaded = IF a.append THEN @ ELSE TRUE]
        IN  feed' = [got EXCEPT !.loading = FALSE, !.isLoadingMore = FALSE,
                                !.fetching.on = FALSE]
    /\ req' = [req EXCEPT ![Caller] = IdleReq]
    /\ UNCHANGED <<storageVars, budget, walk, card>>

\* hasMore && !isLoadingMore && !loading && hasLoaded
CanLoadMoreMut(f) == TRUE
CanLoadMore(f) == f.hasMore /\ ~f.isLoadingMore /\ ~f.loading /\ f.hasLoaded

\* the connection a page request goes out on: fetch() does not wait for an
\* earlier request of the component
FeedWire == IF req[Caller].kind = "none" THEN Caller ELSE Author

\* the IntersectionObserver callback with target.isIntersecting; the observed
\* div is rendered in the list view only
FeedIntersect ==
    /\ feed.mounted /\ FeedView(feed) = "list"
    /\ IF CanLoadMore(feed)
       THEN /\ req[FeedWire].kind = "none"
            /\ feed' = FetchPosts(feed, feed.offset, TRUE)
            /\ req' = [req EXCEPT ![FeedWire] =
                          PostsGetArrive(feed.viewer, feed.offset, POSTS_PER_PAGE)]
       ELSE /\ feed' = [feed EXCEPT !.dropped = @ \/ feed.fetching.on]
            /\ UNCHANGED req
    /\ UNCHANGED <<storageVars, budget, walk, card>>

\* onClick={() => window.location.reload()} of the error view
FeedReload ==
    /\ feed.mounted /\ FeedView(feed) = "error"
    /\ feed' = FreshFeed(feed.viewer)
    /\ UNCHANGED <<storageVars, budget, req, walk, card>>

FeedSizes == {0, 9, 10, 11, 20, 21}

\* n posts of distinct created_at
FeedPosts(n) ==
    {[id |-> i, user_id |-> "u1", created_at |-> i, image |-> 3] : i \in 1..n}

InitFeed ==
    /\ \E n \in FeedSizes : posts = FeedPosts(n)
    /\ likes = {}
    /\ comments = {}
    /\ budget = 0
    /\ InitIdle
    /\ \E v \in {NoUser, "c1"} : feed = FreshFeed(v)
    /\ walk = NoWalk /\ card = NoCard

NextFeed ==
    \/ FeedMount
    \/ PostsGetUser(Caller)
    \/ PostsGetPosts(Caller)
    \/ PostsGetLikes(Caller)
    \/ PostsGetComments(Caller)
    \/ PostsGetUserLikes(Caller)
    \/ PostsGetPreview(Caller)
    \/ FeedSettle
    \/ FeedIntersect
    \/ FeedReload

SpecFeed == InitFeed /\ [][NextFeed]_vars

\* SpecFeed with the scheduling of a page that stays open: a mounted effect
\* runs, a request that has arrived is handled to its response, a response is
\* settled, and the observed element, visible at the end of the list, keeps
\* signalling
SpecScroll ==
    /\ InitFeed /\ [][NextFeed]_vars
    /\ WF_vars(FeedMount)
    /\ WF_vars(\/ PostsGetUser(Caller) \/ PostsGetPosts(Caller)
               \/ PostsGetLikes(Caller) \/ PostsGetComments(Caller)
               \/ PostsGetUserLikes(Caller) \/ PostsGetPreview(Caller))
    /\ WF_vars(FeedSettle)
    /\ WF_vars(FeedIntersect)

\* PostFeed on its own: the response of fetch as fetchPosts reads it, which is
\* response.ok, data.posts and data.total. fetchPosts provides for a total
\* that is compared with the new offset and for a response without one
\* (data.total || 0), so the total is the page length the route of this
\* repository sends, the number of posts of the data set, or absent.
PagerRespond ==
    \E s \in Sessions :
        /\ req[s].kind = "postsGet" /\ req[s].pc # "done"
        /\ \E ok \in BOOLEAN : \E order \in DescOrders(posts) :
            LET page == PostsPage(order, req[s].offset, req[s].limit)
                r == [req[s] EXCEPT !.touched = @ + 1, !.answered = ok,
                                    !.page = page,
                                    !.previews = [i \in 1..Len(page) |-> <<>>]]
            IN  \E total \in {0, Len(page), Cardinality(posts)} :
                  req' = [req EXCEPT ![s] =
                      IF ok THEN Respond([r EXCEPT
                                     !.body = PostsWithDetails(r, r.previews),
                                     !.total = total], 200)
                      ELSE Respond(r, 500)]
        /\ UNCHANGED <<storageVars, budget, clientVars>>

NextPager ==
    \/ FeedMount
    \/ PagerRespond
    \/ FeedSettle
    \/ FeedIntersect
    \/ FeedReload

SpecPager == InitFeed /\ [][NextPager]_vars

----------------------------------------------------------------------------
(* PostCard: the like button and the image tap *)

LikeSlot == "s1"          \* the session of the card's like requests
FormSlot == "s2"          \* the session of the comment form's requests

StartTime == 100000       \* Date.now() when the card is mounted
DoubleTapWindow == 300

\* useState(post.is_liked), useState(post.likes_count), useState(0) for
\* lastTapTime, useState(false) for showDoubleTapHeart, useState(post.comments_count), useState(post.comments_preview);
\* like is the closure of the like request in flight, form the CommentForm,
\* deletingCommentId the state of the CommentList.  deleteFailed is the comment
\* whose deletion has failed, until the next deletion is started.
\* History: clicks and submits count the button clicks and form submissions;
\* taps, tapAt, tapFirst, gap describe the image taps made so far; dropped
\* counts the clicks and taps that came while a like request was pending;
\* before is the (isLiked, likesCount) pair when the last mutation started,
\* outcome how it ended and answer the response.status its handler read (0 when
\* the fetch was rejected); c0, p0 and added describe the comments handed over.
FreshCard(viewer, pid, isLiked, likesCount, commentsCount, preview) ==
    [mounted |-> TRUE, viewer |-> viewer, post |-> pid,
     isLiked |-> isLiked, likesCount |-> likesCount, isLoading |-> FALSE,
     lastTapTime |-> 0, showDoubleTapHeart |-> FALSE,
     commentsCount |-> commentsCount, commentsPreview |-> preview,
     like |-> [via |-> "none", previousIsLiked |-> FALSE, previousLikesCount |-> 0],
     form |-> [content |-> NoContent, isLoading |-> FALSE, error |-> FALSE],
     deletingCommentId |-> NoComment, deleteFailed |-> NoComment,
     now |-> StartTime,
     clicks |-> 0, submits |-> 0, taps |-> 0, tapAt |-> 0, tapFirst |-> FALSE, gap |-> 0,
     dropped |-> 0,
     before |-> [isLiked |-> isLiked, likesCount |-> likesCount],
     outcome |-> "none", answer |-> 0,
     c0 |-> commentsCount, p0 |-> preview, added |-> <<>>]

\* const previousIsLiked = isLiked; const previousLikesCount = likesCount;
\* ...; setIsLoading(true)
Pending(c, via) ==
    [c EXCEPT !.isLoading = TRUE,
              !.like = [via |-> via, previousIsLiked |-> c.isLiked,
                        previousLikesCount |-> c.likesCount],
              !.before = [isLiked |-> c.isLiked, likesCount |-> c.likesCount],
              !.outcome = "pending", !.answer = 0]

\* if (isLoading) return
LikePendingMut(c) == FALSE
LikePending(c) == c.isLoading

\* the connection a like request of the card goes out on: fetch() does not wait
\* for an earlier request of the card
LikeWire == IF req[LikeSlot].kind = "none" THEN LikeSlot ELSE FormSlot

\* handleLikeClick up to its await fetch(...): ignored while isLoading; otherwise
\* the optimistic toggle, then POST /api/likes or DELETE /api/likes/[postId]
CardLikeClick ==
    /\ card.mounted /\ card.clicks < MaxClicks
    /\ IF LikePending(card)
       THEN card' = [card EXCEPT !.clicks = @ + 1, !.dropped = @ + 1]
            /\ UNCHANGED req
       ELSE /\ req[LikeWire].kind = "none"
            /\ card' = [Pending(card, "button") EXCEPT
                          !.clicks = @ + 1,
                          !.isLiked = ~card.isLiked,
                          !.likesCount = IF card.isLiked THEN @ - 1 ELSE @ + 1]
            /\ req' = [req EXCEPT ![LikeWire] =
                          IF ~card.isLiked THEN LikePostArrive(card.viewer, card.post)
                          ELSE LikeDeleteArrive(card.viewer, card.post)]
    /\ UNCHANGED <<storageVars, budget, walk, feed>>

\* if (timeDiff < 300 && timeDiff > 0)
IsDoubleTapMut(timeDiff) == timeDiff < 10 * DoubleTapWindow /\ timeDiff > 0
IsDoubleTap(timeDiff) == timeDiff < DoubleTapWindow /\ timeDiff > 0

Gaps == {0, 1, DoubleTapWindow - 1, DoubleTapWindow, DoubleTapWindow + 1}

\* handleImageClick, called d ms after the previous tap (or after mounting):
\* ignored when isLiked || isLoading; a double tap likes optimistically, sends
\* POST /api/likes and resets lastTapTime; any other tap is recorded
CardImageTap(d) ==
    /\ card.mounted /\ card.taps < MaxTaps
    /\ LET currentTime == card.now + d
           timeDiff == currentTime - card.lastTapTime
           ignored == card.isLiked \/ LikePending(card)
           double == ~ignored /\ IsDoubleTap(timeDiff)
           c == [card EXCEPT !.now = currentTime,
                             !.taps = @ + 1, !.tapAt = currentTime,
                             !.gap = currentTime - card.tapAt,
                             !.tapFirst = ~ignored /\ ~double,
                             !.dropped = IF card.isLoading THEN @ + 1 ELSE @]
       IN  IF ignored THEN card' = c /\ UNCHANGED req
           ELSE IF double
           THEN /\ req[LikeWire].kind = "none"
                /\ card' = [Pending(c, "tap") EXCEPT
                              !.isLiked = TRUE, !.likesCount = @ + 1,
                              !.showDoubleTapHeart = TRUE,
                              !.lastTapTime = 0]
                /\ req' = [req EXCEPT ![LikeWire] =
                              LikePostArrive(card.viewer, card.post)]
           ELSE /\ card' = [c EXCEPT !.lastTapTime = currentTime]
                /\ UNCHANGED req
    /\ UNCHANGED <<storageVars, budget, walk, feed>>

\* setTimeout(() => { setShowDoubleTapHeart(false) }, 1000)
CardHeartTimeout ==
    /\ card.mounted /\ card.showDoubleTapHeart
    /\ card' = [card EXCEPT !.showDoubleTapHeart = FALSE]
    /\ UNCHANGED <<storageVars, budget, req, walk, feed>>

\* setIsLiked(previousIsLiked); setLikesCount(previousLikesCount)
RollbackMut(c) == [c EXCEPT !.isLiked = c.like.previousIsLiked]
Rollback(c) ==
    [c EXCEPT !.isLiked = c.like.previousIsLiked,
              !.likesCount = c.like.previousLikesCount]

\* how the like fetch ends: if (!response.ok) { if (response.status === 409)
\* return; throw ... } in the add branch, if (!response.ok) throw ... in the
\* remove branch; a rejected fetch goes to the catch block
LikeOutcomeMut(r, delivered) ==
    IF delivered /\ ResponseOk(r.status) THEN "ok" ELSE "failed"
LikeOutcome(r, delivered) ==
    IF delivered /\ ResponseOk(r.status) THEN "ok"
    ELSE IF delivered /\ r.kind = "likePost" /\ r.status = 409 THEN "conflict"
    ELSE "failed"

\* the like fetch has resolved (delivered) or rejected: a response that is not
\* ok rolls back, except 409 to POST /api/likes; a rejection rolls back;
\* finally setIsLoading(false)
CardLikeSettle ==
    /\ card.mounted /\ card.isLoading
    /\ Finished(LikeSlot)
    /\ \E delivered \in BOOLEAN :
        LET r == req[LikeSlot]
            out == LikeOutcome(r, delivered)
            c == IF out = "failed" THEN Rollback(card) ELSE card
        IN  card' = [c EXCEPT !.isLoading = FALSE, !.outcome = out,
                              !.answer = IF delivered THEN r.status ELSE 0]
    /\ req' = [req EXCEPT ![LikeSlot] = IdleReq]
    /\ UNCHANGED <<storageVars, budget, walk, feed>>

\* the PostWithDetails a page read from these tables gives for the post
PropsFrom(viewer, pid, likeRows) ==
    FreshCard(viewer, pid,
              \E l \in likeRows : l.post_id = pid /\ l.user_id = UserByClerk(viewer),
              CountFor(likeRows, pid), 0, <<>>)

CardLikes == {{}, {l \in InitLikeRows : l.id = 11}, {l \in InitLikeRows : l.id = 12},
              {l \in InitLikeRows : l.id \in {11, 12}}}

\* the card shows post 1 as a page read it; the likes table may have changed
\* since (the viewer's other sessions, other users)
InitCard ==
    /\ posts = InitPosts(2)
    /\ likes \in CardLikes
    /\ comments = {}
    /\ budget = 0
    /\ InitIdle
    /\ \E v \in {"c1", NoUser}, seen \in CardLikes : card = PropsFrom(v, 1, seen)
    /\ walk = NoWalk /\ feed = NoFeed

NextCard ==
    \/ CardLikeClick
    \/ \E d \in Gaps : CardImageTap(d)
    \/ LikePostUser(LikeSlot)
    \/ LikePostCheck(LikeSlot)
    \/ LikePostInsert(LikeSlot)
    \/ LikeDeleteUser(LikeSlot)
    \/ LikeDeleteFind(LikeSlot)
    \/ LikeDeleteRow(LikeSlot)
    \/ CardLikeSettle

SpecCard == InitCard /\ [][NextCard]_vars

\* SpecCard with a single and a double tap as the image taps, and with the
\* timer that hides the double-tap heart
NextCardFair ==
    \/ CardLikeClick
    \/ \E d \in {1, DoubleTapWindow} : CardImageTap(d)
    \/ CardHeartTimeout
    \/ LikePostUser(LikeSlot)
    \/ LikePostCheck(LikeSlot)
    \/ LikePostInsert(LikeSlot)
    \/ LikeDeleteUser(LikeSlot)
    \/ LikeDeleteFind(LikeSlot)
    \/ LikeDeleteRow(LikeSlot)
    \/ CardLikeSettle

\* and with the scheduling of a served request: a handler that has started
\* takes its next step, and a fetch that has resolved or rejected runs the
\* rest of the click handler
SpecCardFair ==
    /\ InitCard /\ [][NextCardFair]_vars
    /\ WF_vars(\/ LikePostUser(LikeSlot) \/ LikePostCheck(LikeSlot)
               \/ LikePostInsert(LikeSlot))
    /\ WF_vars(\/ LikeDeleteUser(LikeSlot) \/ LikeDeleteFind(LikeSlot)
               \/ LikeDeleteRow(LikeSlot))
    /\ WF_vars(CardLikeSettle)

----------------------------------------------------------------------------
(* SpecView: the feed's first page is fetched and one of its posts is rendered
   as a PostCard, whose like button and image are then used *)

\* posts.map((post) => <PostCard key={post.id} post={post} />): the card of
\* the i-th post of the page takes its state from the PostWithDetails
CardMount(i) ==
    /\ ~card.mounted
    /\ Finished(Caller) /\ req[Caller].kind = "postsGet"
    /\ ResponseOk(req[Caller].status)
    /\ i \in DOMAIN req[Caller].body
    /\ LET r == req[Caller]
           post == r.body[i]
       IN  card' = FreshCard(r.viewer, post.id, post.is_liked, post.likes_count,
                             post.comments_count,
                             [k \in 1..Len(post.comments_preview) |->
                                 post.comments_preview[k].id])
    /\ req' = [req EXCEPT ![Caller] = IdleReq]
    /\ UNCHANGED <<storageVars, budget, walk, feed>>

\* the page has been opened: the initial fetch of PostFeed is on its way
InitView ==
    /\ posts = InitPosts(2)
    /\ likes \in CardLikes
    /\ comments = {}
    /\ budget = 0
    /\ assets = {3, 4} /\ nextId = FirstFreeId /\ clock = 2
    /\ \E v \in {"c1", NoUser} :
          req = [s \in Sessions |->
                    IF s = Caller THEN PostsGetArrive(v, 0, POSTS_PER_PAGE)
                    ELSE IdleReq]
    /\ walk = NoWalk /\ feed = NoFeed /\ card = NoCard

NextView ==
    \/ PostsGetUser(Caller)
    \/ PostsGetPosts(Caller)
    \/ PostsGetLikes(Caller)
    \/ PostsGetComments(Caller)
    \/ PostsGetUserLikes(Caller)
    \/ PostsGetPreview(Caller)
    \/ \E i \in 1..POSTS_PER_PAGE : CardMount(i)
    \/ CardLikeClick
    \/ \E d \in {1, DoubleTapWindow} : CardImageTap(d)
    \/ LikePostUser(LikeSlot)
    \/ LikePostCheck(LikeSlot)
    \/ LikePostInsert(LikeSlot)
    \/ LikeDeleteUser(LikeSlot)
    \/ LikeDeleteFind(LikeSlot)
    \/ LikeDeleteRow(LikeSlot)
    \/ CardLikeSettle

SpecView == InitView /\ [][NextView]_vars

----------------------------------------------------------------------------
(* CommentForm and the card's handleCommentAdded *)

\* handleInputChange: if (value.length <= MAX_COMMENT_LENGTH) { setContent(value);
\* setError(null) }; the input is disabled while isLoading
FormInput(value) ==
    /\ card.mounted /\ ~card.form.isLoading
    /\ card' = IF StrLen(value) <= MaxCommentLength
               THEN [card EXCEPT !.form.content = value, !.form.error = FALSE]
               ELSE card
    /\ UNCHANGED <<storageVars, budget, req, walk, feed>>

\* handleSubmit up to its await fetch(...): an empty trimmed content and a
\* submission in flight are ignored, an over-long one sets the error;
\* otherwise POST /api/comments with the trimmed content
FormSubmit ==
    /\ card.mounted /\ card.submits < MaxSubmits
    /\ LET trimmedContent == Trim(card.form.content)
           c == [card EXCEPT !.submits = @ + 1]
       IN  IF StrLen(trimmedContent) = 0 THEN card' = c /\ UNCHANGED req
           ELSE IF StrLen(trimmedContent) > MaxCommentLength
           THEN card' = [c EXCEPT !.form.error = TRUE] /\ UNCHANGED req
           ELSE IF card.form.isLoading THEN card' = c /\ UNCHANGED req
           ELSE /\ req[FormSlot].kind = "none"
                /\ card' = [c EXCEPT !.form.isLoading = TRUE, !.form.error = FALSE]
                /\ req' = [req EXCEPT ![FormSlot] =
                              CommentPostArrive(card.viewer, card.post, trimmedContent)]
    /\ UNCHANGED <<storageVars, budget, walk, feed>>

\* const updated = [newComment, ...prev]; return updated.slice(0, 2)
AddToPreviewMut(newComment, prev) == Limit(prev \o <<newComment>>, 2)
AddToPreview(newComment, prev) == Limit(<<newComment>> \o prev, 2)

\* handleCommentAdded(newComment)
HandleCommentAdded(c, newComment) ==
    [c EXCEPT !.commentsCount = @ + 1,
              !.commentsPreview = AddToPreview(newComment, @)]

\* setError(errorMsg); onError?.(errorMsg), where onError is the card's
\* handleCommentError, a log line
FormFailedMut(c) == [c EXCEPT !.form.error = TRUE, !.form.content = NoContent]
FormFailed(c) == [c EXCEPT !.form.error = TRUE]

\* the rest of handleSubmit once the fetch has resolved (delivered) or rejected.
\* A response that is not ok sets the error.  On 201 the form reads
\* newComment.user.name: with user: null that throws, and the catch block sets
\* the error; otherwise the content is cleared and onCommentAdded is called.
\* finally setIsLoading(false)
FormSettle ==
    /\ card.mounted /\ card.form.isLoading
    /\ Finished(FormSlot) /\ req[FormSlot].kind = "commentPost"
    /\ \E delivered \in BOOLEAN :
        LET r == req[FormSlot]
            done == IF delivered /\ ResponseOk(r.status) /\ r.joined
                    THEN [HandleCommentAdded(card, r.row) EXCEPT
                            !.form.content = NoContent,
                            !.added = Append(@, r.row)]
                    ELSE FormFailed(card)
        IN  card' = [done EXCEPT !.form.isLoading = FALSE]
    /\ req' = [req EXCEPT ![FormSlot] = IdleReq]
    /\ UNCHANGED <<storageVars, budget, walk, feed>>

\* what the user may type
Typed ==
    {Word,
     [lead |-> 1, core |-> 0, trail |-> 0],
     [lead |-> 1, core |-> MaxCommentLength - 1, trail |-> 0],
     [lead |-> 0, core |-> MaxCommentLength + 1, trail |-> 0]}

\* the card shows post 1 as a page read from these tables gives it
InitForm ==
    /\ posts = InitPosts(2)
    /\ likes = {}
    /\ comments \in {{}, {c \in InitCommentRows : c.id = 21}, InitCommentRows}
    /\ budget = 0
    /\ InitIdle
    /\ \E v \in {"c1", NoUser}, pv \in PreviewsOf(1) :
          card = FreshCard(v, 1, FALSE, 0, CountFor(comments, 1),
                           [i \in 1..Len(pv) |-> pv[i].id])
    /\ walk = NoWalk /\ feed = NoFeed

NextForm ==
    \/ \E value \in Typed : FormInput(value)
    \/ FormSubmit
    \/ CommentPostUser(FormSlot)
    \/ CommentPostCheck(FormSlot)
    \/ CommentPostInsert(FormSlot)
    \/ CommentPostJoin(FormSlot)
    \/ FormSettle

SpecForm == InitForm /\ [][NextForm]_vars

----------------------------------------------------------------------------
(* CommentList and the card's handleCommentDeleted *)

ListSlot == "s1"          \* the session of the comment list's requests

\* isOwnComment: currentClerkId === comment.user.clerk_id, from the author the
\* comment in the preview carries (a row of the page, or one this card added)
IsOwnComment(c, cid) ==
    /\ Authenticated(c.viewer)
    /\ \/ cid \in SeqToSet(c.added)
       \/ \E row \in InitCommentRows :
             row.id = cid /\ row.user_id = UserByClerk(c.viewer)

\* handleDelete(commentId) up to its await fetch(...): the button is shown on
\* the viewer's own comments of the preview; ignored while a delete is in flight
ListDelete(cid) ==
    /\ card.mounted /\ card.commentsCount > 0
    /\ cid \in SeqToSet(card.commentsPreview) /\ IsOwnComment(card, cid)
    /\ IF card.deletingCommentId # NoComment THEN UNCHANGED <<card, req>>
       ELSE /\ req[ListSlot].kind = "none"
            /\ card' = [card EXCEPT !.deletingCommentId = cid,
                                    !.deleteFailed = NoComment]
            /\ req' = [req EXCEPT ![ListSlot] = CommentDeleteArrive(card.viewer, cid)]
    /\ UNCHANGED <<storageVars, budget, walk, feed>>

Max(a, b) == IF a > b THEN a ELSE b

\* prev.filter((comment) => comment.id !== commentId)
Without(q, cid) == SelectSeq(q, LAMBDA x : x # cid)

\* handleCommentDeleted(commentId)
HandleCommentDeleted(c, cid) ==
    [c EXCEPT !.commentsCount = Max(0, @ - 1),
              !.commentsPreview = Without(@, cid)]

\* the rest of handleDelete once the fetch has resolved (delivered) or rejected:
\* onCommentDeleted on an ok response, onError (a log line) otherwise;
\* finally setDeletingCommentId(null)
ListSettle ==
    /\ card.mounted /\ card.deletingCommentId # NoComment
    /\ Finished(ListSlot) /\ req[ListSlot].kind = "commentDelete"
    /\ \E delivered \in BOOLEAN :
        LET r == req[ListSlot]
            done == IF delivered /\ ResponseOk(r.status)
                    THEN HandleCommentDeleted(card, card.deletingCommentId)
                    ELSE [card EXCEPT !.deleteFailed = card.deletingCommentId]
        IN  card' = [done EXCEPT !.deletingCommentId = NoComment]
    /\ req' = [req EXCEPT ![ListSlot] = IdleReq]
    /\ UNCHANGED <<storageVars, budget, walk, feed>>

----------------------------------------------------------------------------
(* SpecThread: the feed's first page is fetched, one of its posts is rendered
   as a PostCard, and comments are added and deleted through the card *)

InitThread ==
    /\ posts = InitPosts(2)
    /\ likes = {}
    /\ comments \in {{}, {c \in InitCommentRows : c.id = 21}, InitCommentRows}
    /\ budget = 0
    /\ assets = {3, 4} /\ nextId = FirstFreeId /\ clock = 2
    /\ \E v \in {"c1", NoUser} :
          req = [s \in Sessions |->
                    IF s = Caller THEN PostsGetArrive(v, 0, POSTS_PER_PAGE)
                    ELSE IdleReq]
    /\ walk = NoWalk /\ feed = NoFeed /\ card = NoCard

NextThread ==
    \/ PostsGetUser(Caller)
    \/ PostsGetPosts(Caller)
    \/ PostsGetLikes(Caller)
    \/ PostsGetComments(Caller)
    \/ PostsGetUserLikes(Caller)
    \/ PostsGetPreview(Caller)
    \/ \E i \in 1..POSTS_PER_PAGE : CardMount(i)
    \/ FormInput(Word)
    \/ FormSubmit
    \/ CommentPostUser(FormSlot)
    \/ CommentPostCheck(FormSlot)
    \/ CommentPostInsert(FormSlot)
    \/ CommentPostJoin(FormSlot)
    \/ FormSettle
    \/ \E cid \in 1..(FirstFreeId + MaxSubmits) : ListDelete(cid)
    \/ CommentDeleteUser(ListSlot)
    \/ CommentDeleteFind(ListSlot)
    \/ CommentDeleteRow(ListSlot)
    \/ ListSettle

SpecThread == InitThread /\ [][NextThread]_vars

----------------------------------------------------------------------------
(* SpecMixed: one session reads the first page of the feed while another
   session likes, unlikes, comments and deletes comments *)

InitMixed ==
    /\ posts = InitPosts(2)
    /\ likes \in CardLikes
    /\ comments \in {{}, InitCommentRows}
    /\ budget = MaxRequests
    /\ assets = {3, 4} /\ nextId = FirstFreeId /\ clock = 2
    /\ req = [s \in Sessions |->
                IF s = Caller THEN PostsGetArrive("c1", 0, POSTS_PER_PAGE)
                ELSE IdleReq]
    /\ walk = NoWalk /\ feed = NoFeed /\ card = NoCard

NextMixed ==
    \/ PostsGetUser(Caller)
    \/ PostsGetPosts(Caller)
    \/ PostsGetLikes(Caller)
    \/ PostsGetComments(Caller)
    \/ PostsGetUserLikes(Caller)
    \/ PostsGetPreview(Caller)
    \/ LikePostStart(Author, "c1", 1)
    \/ LikePostUser(Author)
    \/ LikePostCheck(Author)
    \/ LikePostInsert(Author)
    \/ LikeDeleteStart(Author, "c1", 1)
    \/ LikeDeleteUser(Author)
    \/ LikeDeleteFind(Author)
    \/ LikeDeleteRow(Author)
    \/ CommentPostStart(Author, "c1", 1, Word)
    \/ CommentPostUser(Author)
    \/ CommentPostCheck(Author)
    \/ CommentPostInsert(Author)
    \/ CommentPostJoin(Author)
    \/ \E c \in InitCommentRows : CommentDeleteStart(Author, "c1", c.id)
    \/ CommentDeleteUser(Author)
    \/ CommentDeleteFind(Author)
    \/ CommentDeleteRow(Author)
    \/ Collect(Author)

SpecMixed == InitMixed /\ [][NextMixed]_vars

----------------------------------------------------------------------------
(* The like routes under interleaving (Spec) *)

\* C3: after any interleaving of POST /api/likes calls the likes table holds at most
\* one row per (post, user); an insert for a pair whose row exists leaves the table
\* as it is and, when the storage answers it, is answered 409 and never 500.
C3_AtMostOneLike ==
    /\ [](\A a \in likes, b \in likes :
            (a.post_id = b.post_id /\ a.user_id = b.user_id) => a = b)
    /\ [][\A s \in Sessions :
            (/\ req[s].kind = "likePost" /\ req[s].pc = "insert"
             /\ req'[s].pc = "done"
             /\ LikeRowsOf(req[s].post_id, req[s].userId) # {})
            => /\ likes' = likes
               /\ req'[s].answered => req'[s].status = 409]_vars

\* a second like of a pair already in the table was answered 409
C3_Witness ==
    \E s \in Sessions :
        /\ req[s].kind = "likePost" /\ req[s].status = 409
        /\ req[s].existed
        /\ Cardinality(LikeRowsOf(req[s].post_id, req[s].userId)) = 1

\* the two sessions hold DELETE /api/likes/[postId] calls of one user for one
\* post, both answered with every query served, and the viewer's like row was
\* there when the first of them looked it up
TwoUnlikes ==
    /\ \A s \in Sessions :
          /\ Finished(s) /\ req[s].kind = "likeDelete" /\ req[s].answered
          /\ req[s].viewer = "c1" /\ req[s].post_id = 1
    /\ \E s \in Sessions :
          \E l \in req[s].likesSeen : l.post_id = 1 /\ l.user_id = "u1"

\* C29: of two concurrent DELETE /api/likes/[postId] calls by one user for an
\* existing like, exactly one is answered 200 and the other 404.
C29_OneRemovalReported ==
    TwoUnlikes => {req[s].status : s \in Sessions} = {200, 404}

----------------------------------------------------------------------------
(* The routes called one at a time (SpecRoutes) *)

Call == req[Caller]

\* C4: every post of a returned page carries likes_count and comments_count equal
\* to the numbers of like and comment rows of the post when the tables were read.
C4_CountsMatchRows ==
    (Call.kind = "postsGet" /\ Call.pc = "done" /\ Call.status = 200)
    => \A i \in DOMAIN Call.body :
          /\ Call.body[i].likes_count = CountFor(Call.likesSeen, Call.body[i].id)
          /\ Call.body[i].comments_count = CountFor(Call.commentsSeen, Call.body[i].id)

\* the like lookup of DELETE /api/likes/[postId] ran for a caller who owns no like
\* on the post
NonOwnerDelete ==
    /\ Call.kind = "likeDelete" /\ Call.pc = "done"
    /\ Call.touched >= 2 /\ Call.answered
    /\ ~\E l \in Call.likesSeen : l.post_id = Call.post_id /\ l.user_id = Call.userId

MutationKinds == {"likePost", "likeDelete", "commentPost", "commentDelete", "postCreate"}

\* C9: without a viewer identity every post of a returned page has is_liked = FALSE,
\* and every mutation route answers 401 before it has issued a storage query.
C9_AnonymousViewer ==
    Call.viewer = NoUser =>
        /\ (Call.kind = "postsGet" /\ Call.pc = "done")
              => \A i \in DOMAIN Call.body : Call.body[i].is_liked = FALSE
        /\ Call.kind \in MutationKinds
              => (Call.pc = "done" /\ Call.status = 401 /\ Call.touched = 0)

\* an anonymous page that shows a post with likes
C9_Witness ==
    /\ Call.kind = "postsGet" /\ Call.pc = "done" /\ Call.viewer = NoUser
    /\ \E i \in DOMAIN Call.body : Call.body[i].likes_count > 0

\* the comment row DELETE /api/comments/[commentId] names, as the tables had it
\* when the request was made
TargetComment ==
    {c \in (IF Call.touched >= 2 THEN Call.commentsSeen ELSE comments) :
        c.id = Call.comment_id}

\* C10: the row is removed only for its author; when the storage answers, a caller
\* who is not the author gets 403; a missing comment gets 404; in both cases the
\* comments table is left as it was.
C10_CommentDeleteByAuthorOnly ==
    (Call.kind = "commentDelete" /\ Call.pc = "done" /\ Call.status # 401
        /\ Call.status # 400)
    => /\ (\E c \in TargetComment : c \notin comments)
            => \A c \in TargetComment : c.user_id = UserByClerk(Call.viewer)
       /\ \A c \in TargetComment :
            (Call.answered /\ c.user_id # UserByClerk(Call.viewer))
                => (Call.status = IF UserByClerk(Call.viewer) = NoId THEN 404 ELSE 403)
       /\ (TargetComment = {}) => Call.status = 404
       /\ Call.status \in {403, 404} =>
            (Call.touched >= 2 => comments = Call.commentsSeen)

\* a user who is not the author was answered 403 and the row is still there
C10_Witness ==
    /\ Call.kind = "commentDelete" /\ Call.status = 403
    /\ \E c \in comments : c.id = Call.comment_id /\ c.user_id # Call.userId

\* C15: GET /api/posts never swallows a storage error: a request whose
\* like-count, comment-count, viewer-like or comment-preview query was refused
\* is not answered with a page.
C15_NoSwallowedErrors ==
    (Call.kind = "postsGet" /\ Call.pc = "done" /\ Len(Call.page) > 0
        /\ ResponseOk(Call.status))
    => /\ Call.likesOk
       /\ Call.commentsOk
       /\ Call.userId # NoId => Call.userLikesOk
       /\ Call.previewOk

\* POST /api/posts has answered after its upload had succeeded
UploadedAndAnswered ==
    Call.kind = "postCreate" /\ Call.pc = "done" /\ Call.row # 0

\* C16 as stated: once POST /api/posts has answered, whatever the outcome of
\* the insert, no asset is in the bucket without a post row referencing it.
C16_NoOrphanAsset ==
    UploadedAndAnswered => \A a \in assets : \E p \in posts : p.image = a

\* C16, amended: when the upload succeeded and the posts insert failed, the
\* handler issues the removal of the uploaded asset before it answers 500; if
\* the storage carries the removal out, the asset is gone; if the storage
\* refuses it, the refusal is ignored and the asset stays in the bucket.
C16_RemovalAttempted ==
    (UploadedAndAnswered /\ Call.status # 201)
    => /\ Call.status = 500
       /\ Call.touched = 4
       /\ Call.removeOk <=> Call.row \notin assets

\* the insert failed, the removal was carried out and the asset is gone
C16_Witness ==
    /\ UploadedAndAnswered /\ Call.status = 500
    /\ Call.removeOk /\ Call.row \notin assets
    /\ \A a \in assets : \E p \in posts : p.image = a

\* the content passes the checks of POST /api/comments and the post is there
CommentAcceptable ==
    /\ StrLen(Trim(Call.content)) > 0
    /\ StrLen(Call.content) <= MaxCommentLength
    /\ PostExists(Call.post_id)

\* the row this request has written
CommentWritten == {c \in comments : c.id = Call.row}

\* C11: POST /api/comments writes a row exactly when the content is non-empty
\* after trimming, content.length is at most 1000 and the post exists (for a
\* caller with a users row, when the storage answers); a step of the request
\* that changes the table adds one row holding the trimmed content; every row
\* of the table is trimmed, non-empty and at most 1000 long; a request answered
\* with anything but 201 has written no row.
C11_CommentInsertIffValid ==
    /\ [](\A c \in comments :
            /\ c.content = Trim(c.content)
            /\ StrLen(c.content) > 0
            /\ StrLen(c.content) <= MaxCommentLength)
    /\ []((Call.kind = "commentPost" /\ Call.pc = "done") =>
            /\ CommentWritten # {} => (CommentAcceptable /\ Call.status = 201)
            /\ Call.status # 201 => CommentWritten = {}
            /\ (/\ CommentAcceptable /\ Call.answered
                /\ UserByClerk(Call.viewer) # NoId)
                  => (CommentWritten # {} /\ Call.status = 201))
    /\ [][(Call.kind = "commentPost" /\ comments' # comments) =>
            /\ CommentAcceptable
            /\ \E c \in comments' \ comments :
                  /\ comments' = comments \cup {c}
                  /\ c.post_id = Call.post_id
                  /\ c.user_id = UserByClerk(Call.viewer)
                  /\ c.content = Trim(Call.content)]_vars

\* a comment typed with a leading blank was stored trimmed and answered 201
C11_Witness ==
    /\ Call.kind = "commentPost" /\ Call.pc = "done" /\ Call.status = 201
    /\ Call.content.lead = 1 /\ Call.content.core = MaxCommentLength - 1
    /\ \E c \in CommentWritten : c.content = Trim(Call.content)

----------------------------------------------------------------------------
(* Reading a page while likes and comments change (SpecMixed) *)

\* the page read has ended with status 200 and every query of it was served
PageServed ==
    /\ Finished(Caller) /\ req[Caller].kind = "postsGet"
    /\ req[Caller].status = 200 /\ req[Caller].answered

\* C28: every post of a page returned by GET /api/posts is consistent in
\* itself, also when likes and comments change between the queries of the
\* read: is_liked implies likes_count >= 1, and comments_preview has
\* min(2, comments_count) entries.
C28_PostConsistent ==
    PageServed =>
        \A i \in DOMAIN req[Caller].body :
            LET post == req[Caller].body[i]
            IN  /\ post.is_liked => post.likes_count >= 1
                /\ Len(post.comments_preview) = Min(2, post.comments_count)

----------------------------------------------------------------------------
(* Reading the feed page after page (SpecPaging) *)

PostById(pid) == CHOOSE p \in posts : p.id = pid

\* C1: each page holds at most limit posts, and once the under-full page has
\* arrived the pages put together hold every post exactly once, in descending
\* created_at, also when posts share a created_at.
C1_PagesCoverFeed ==
    /\ (Call.kind = "postsGet" /\ Call.pc = "done")
          => Len(Call.body) <= Call.limit
    /\ walk.done /\ walk.limit > 0
          => /\ Len(walk.got) = Cardinality(posts)
             /\ SeqToSet(walk.got) = {p.id : p \in posts}
             /\ \A i \in 1..Len(walk.got) : \A j \in 1..Len(walk.got) :
                   i < j => PostById(walk.got[i]).created_at
                              >= PostById(walk.got[j]).created_at

----------------------------------------------------------------------------
(* Reading the feed while posts are created (SpecLive) *)

\* C12: when posts are created between the page fetches of one reader, and no
\* two posts share a created_at, the accumulated list holds no post twice, and
\* once the reader has finished it holds every post that was there from the
\* start.
C12_PagerStableUnderInserts ==
    (\A p \in posts, q \in posts : p.created_at = q.created_at => p = q)
    => /\ \A i \in 1..Len(walk.got) : \A j \in 1..Len(walk.got) :
             walk.got[i] = walk.got[j] => i = j
       /\ walk.done => {p.id : p \in InitPosts(2)} \subseteq SeqToSet(walk.got)

----------------------------------------------------------------------------
(* PostFeed (SpecFeed) *)

PagesInFlight == {s \in Sessions : req[s].kind = "postsGet"}

\* C18: at most one page fetch is in flight at any time, and one is in flight
\* exactly while fetchPosts is running; while a fetch is in flight no step
\* (a visibility signal included) starts another, and when the fetch is
\* settled no fetch that was held back starts with it.
C18_OneFetchInFlight ==
    /\ [](feed.mounted =>
            /\ Cardinality(PagesInFlight) <= 1
            /\ feed.fetching.on <=> PagesInFlight # {})
    /\ [][(feed.mounted /\ feed.fetching.on)
           => /\ PagesInFlight' \subseteq PagesInFlight
              /\ ~feed'.fetching.on => PagesInFlight' = {}]_vars

\* a next-page load is in flight as the only request, and a visibility signal
\* has arrived in the meantime
C18_Witness ==
    /\ feed.mounted /\ feed.fetching.on /\ feed.fetching.append
    /\ feed.isLoadingMore /\ feed.dropped
    /\ PagesInFlight = {Caller}

\* the pager holds every post of the data set
HoldsEveryPost == SeqToSet(feed.posts) = {p.id : p \in posts}

\* C20: with a data set of more posts than one page, no fetch failure and a
\* visibility signal that recurs whenever the pager is idle, the pager
\* eventually holds every post, and hasMore is false after a load only when
\* it does.
C20_PagerReachesEnd ==
    /\ []((/\ Cardinality(posts) > POSTS_PER_PAGE
           /\ feed.mounted /\ feed.hasLoaded /\ ~feed.error /\ ~feed.hasMore)
          => HoldsEveryPost)
    /\ ((Cardinality(posts) > POSTS_PER_PAGE /\ [](feed.mounted /\ ~feed.error))
          => <>HoldsEveryPost)

\* C30: whenever no fetch of the pager is in flight, offset is the number of
\* posts in the accumulated list; and offset never decreases, whatever
\* fetches succeed or fail, until the window is reloaded and the component
\* starts afresh.
C30_OffsetCountsPosts ==
    /\ []((feed.mounted /\ ~feed.fetching.on) => feed.offset = Len(feed.posts))
    /\ [][(feed.mounted /\ ~(feed'.effect /\ ~feed.effect))
           => feed'.offset >= feed.offset]_vars

\* two pages have been loaded and the fetch of the third has failed
C30_Witness ==
    /\ feed.mounted /\ ~feed.fetching.on /\ feed.error
    /\ feed.offset = 2 * POSTS_PER_PAGE /\ Len(feed.posts) = 2 * POSTS_PER_PAGE

----------------------------------------------------------------------------
(* PostCard: likes (SpecCard) *)

\* C6: of two image taps on a card that is not liked and has no like request
\* pending, the first of them starting a gesture, the second sends exactly one
\* POST /api/likes when it comes d ms later with 0 < d < 300, and the two send
\* no request when d > 300.
C6_DoubleTapLikesOnce ==
    [][(/\ card.mounted /\ card'.taps = card.taps + 1
        /\ card.tapFirst /\ ~card.isLiked /\ ~card.isLoading)
       => LET d == card'.tapAt - card.tapAt
          IN  /\ (0 < d /\ d < DoubleTapWindow)
                    => /\ req[LikeSlot].kind = "none"
                       /\ req'[LikeSlot].kind = "likePost"
                       /\ req'[FormSlot] = req[FormSlot]
              /\ d > DoubleTapWindow => req' = req]_vars

\* the second of two taps 299 ms apart has sent the POST
C6_Witness ==
    /\ card.mounted /\ card.taps = 2 /\ card.gap = DoubleTapWindow - 1
    /\ card.isLoading /\ card.like.via = "tap"
    /\ req[LikeSlot].kind = "likePost"

\* C7: when a like or unlike request started by the button or by a double tap has
\* failed with anything but 409, isLiked and likesCount are the values they had
\* right before the request was started.
C7_RollbackRestores ==
    (card.mounted /\ card.outcome = "failed")
        => /\ card.isLiked = card.before.isLiked
           /\ card.likesCount = card.before.likesCount

\* an unlike and a double-tap like whose requests failed
C7_Witness ==
    /\ card.mounted /\ card.outcome = "failed" /\ ~card.isLoading
    /\ card.like.via = "tap" /\ card.likesCount > 0

\* the like requests of the card that have been sent and not yet settled
LikesInFlight == {s \in Sessions : req[s].kind \in {"likePost", "likeDelete"}}

\* C17: at most one like mutation of the card is in flight at any time, and it
\* is in flight exactly while the card is pending; a heart click or an image
\* tap that comes while the card is pending starts no request and changes
\* neither isLiked nor likesCount.
C17_OneLikeInFlight ==
    /\ [](card.mounted =>
            /\ Cardinality(LikesInFlight) <= 1
            /\ card.isLoading <=> LikesInFlight # {})
    /\ [][(/\ card.mounted /\ card.isLoading
           /\ (card'.clicks = card.clicks + 1 \/ card'.taps = card.taps + 1))
          => /\ req' = req
             /\ card'.isLiked = card.isLiked
             /\ card'.likesCount = card.likesCount
             /\ card'.isLoading]_vars

\* a click and a tap came while the request of an earlier click was pending,
\* and that request is still the only one
C17_Witness ==
    /\ card.mounted /\ card.isLoading /\ card.dropped = 2
    /\ card.clicks = 2 /\ card.taps = 1
    /\ LikesInFlight = {LikeSlot}

\* a like row of the card's viewer for the card's post
ViewerLikeRow ==
    \E l \in likes : l.post_id = card.post /\ l.user_id = UserByClerk(card.viewer)

\* the last like mutation of the card was answered with 409 and is settled
EndedInConflict ==
    card.mounted /\ ~card.isLoading /\ ~card.before.isLiked /\ card.answer = 409

\* C21 (as claimed): after a like-add answered with 409 the card keeps isLiked
\* and the incremented likesCount, a like row of the viewer exists and
\* likesCount equals the number of like rows of the post.
C21_ConflictMatchesServer ==
    EndedInConflict =>
        /\ card.isLiked /\ card.likesCount = card.before.likesCount + 1
        /\ ViewerLikeRow
        /\ card.likesCount = CountFor(likes, card.post)

\* C21 (amended): after a like-add answered with 409 the card keeps isLiked
\* and the incremented likesCount, and a like row of the viewer exists;
\* likesCount equals the number of like rows exactly when the count the card
\* started from was the number of the other users' like rows.
C21_ConflictKeepsLike ==
    EndedInConflict =>
        /\ card.isLiked /\ card.outcome = "conflict"
        /\ card.likesCount = card.before.likesCount + 1
        /\ ViewerLikeRow
        /\ (card.likesCount = CountFor(likes, card.post))
             <=> (card.before.likesCount = CountFor(likes, card.post) - 1)

\* a double tap has ended in a conflict
C21_Witness ==
    /\ EndedInConflict /\ card.isLiked /\ ViewerLikeRow
    /\ card.likesCount = CountFor(likes, card.post)
    /\ card.like.via = "tap"

\* the card shows the mutation's optimistic values
Committed ==
    /\ card.outcome \in {"ok", "conflict"}
    /\ card.isLiked = ~card.before.isLiked
    /\ card.likesCount =
          card.before.likesCount + (IF card.before.isLiked THEN -1 ELSE 1)

\* the card shows the snapshot taken when the mutation started
RolledBack ==
    /\ card.outcome = "failed"
    /\ card.isLiked = card.before.isLiked
    /\ card.likesCount = card.before.likesCount

\* C22: a like mutation that is pending eventually is not; it is then either
\* committed or rolled back, never both, and with isLoading false the next
\* click on the like button starts a mutation.
C22_PendingEnds ==
    /\ (card.isLoading ~> ~card.isLoading)
    /\ [](card.isLoading => card.outcome = "pending")
    /\ []((card.mounted /\ ~card.isLoading /\ card.outcome # "none")
            => (Committed /\ ~RolledBack) \/ (RolledBack /\ ~Committed))
    /\ [][(~card.isLoading /\ card'.clicks = card.clicks + 1)
           => card'.isLoading /\ LikesInFlight' # {}]_vars

\* a mutation has ended either way and a later click is pending
C22_Witness ==
    /\ card.isLoading /\ card.clicks = MaxClicks
    /\ card.like.via = "button" /\ card.dropped = 0
    /\ LikesInFlight # {}

\* C27: when a like or unlike mutation of the card has ended with a response
\* read by the handler, committed or rolled back, the card's isLiked says
\* whether a like row of the viewer for the post exists, also when the card was
\* rendered from a page that the viewer's other session has outdated.
C27_IsLikedMatchesStorage ==
    (/\ card.mounted /\ ~card.isLoading
     /\ card.outcome \in {"ok", "conflict", "failed"} /\ card.answer # 0)
    => (card.isLiked <=> ViewerLikeRow)

\* C24: an image tap on a card that shows the post as liked, or whose like
\* mutation is pending, changes nothing: no request is sent, the double-tap
\* heart is not shown, and lastTapTime, isLiked, likesCount and isLoading keep
\* their values.
C24_IgnoredTapChangesNothing ==
    [][(/\ card.mounted /\ card'.taps = card.taps + 1
        /\ (card.isLiked \/ card.isLoading))
       => /\ req' = req
          /\ card'.showDoubleTapHeart = card.showDoubleTapHeart
          /\ card'.lastTapTime = card.lastTapTime
          /\ card'.isLiked = card.isLiked
          /\ card'.likesCount = card.likesCount
          /\ card'.isLoading = card.isLoading
          /\ card'.like = card.like]_vars

\* the image was tapped while an unlike made with the button was pending: the
\* card shows the post as not liked, and the tap was dropped
C24_Witness ==
    /\ card.mounted /\ card.isLoading /\ ~card.isLiked
    /\ card.like.via = "button" /\ card.clicks = 1
    /\ card.taps = 1 /\ card.dropped = 1
    /\ card.lastTapTime = 0 /\ ~card.showDoubleTapHeart

----------------------------------------------------------------------------
(* A card rendered from a fetched page (SpecView) *)

\* C13: the like count shown for a post is never negative: neither likes_count
\* of a page returned by GET /api/posts, nor the card's likesCount after any
\* sequence of like and unlike toggles, commits and rollbacks.
C13_LikeCountNonNegative ==
    /\ (Call.kind = "postsGet" /\ Call.pc = "done")
          => \A i \in DOMAIN Call.body : Call.body[i].likes_count >= 0
    /\ card.mounted => card.likesCount >= 0

----------------------------------------------------------------------------
(* A card rendered from a fetched page: comments (SpecThread) *)

\* C25: a comment deletion that fails, by a response that is not 2xx or by a
\* rejected fetch, leaves the card's preview and commentsCount as they were
\* before the deletion was attempted: neither the start of handleDelete nor
\* its end after the failure changes them, and the comment keeps its place.
C25_FailedDeleteChangesNothing ==
    /\ [][(card.mounted /\ card.deletingCommentId # card'.deletingCommentId
            /\ card'.deletingCommentId # NoComment)
           => /\ card'.commentsPreview = card.commentsPreview
              /\ card'.commentsCount = card.commentsCount]_vars
    /\ [][(/\ card.mounted /\ card.deletingCommentId # NoComment
            /\ card'.deletingCommentId = NoComment
            /\ \/ req[ListSlot].status < 200 \/ req[ListSlot].status > 299
               \/ card'.deleteFailed # card.deleteFailed)
           => /\ card'.commentsPreview = card.commentsPreview
              /\ card'.commentsCount = card.commentsCount
              /\ card'.deleteFailed = card.deletingCommentId]_vars

\* the deletion of the first comment of a two-comment preview has failed
C25_Witness ==
    /\ card.mounted /\ card.deletingCommentId = NoComment
    /\ Len(card.commentsPreview) = 2
    /\ card.deleteFailed = card.commentsPreview[1]
    /\ card.commentsCount >= 2


\* the ids of a list of comment rows
IdsOf(q) == [k \in 1..Len(q) |-> q[k].id]

\* the lists of the min(2, n) most recent comments of a post, newest first
NewestTwo(pid) == {IdsOf(pv) : pv \in PreviewsOf(pid)}

\* C14: after any sequence of comment additions and deletions the preview of a
\* post is the min(2, number of comments) most recent comments of the post,
\* newest first: in every page GET /api/posts returns, and in the card once
\* its requests have been settled.
C14_PreviewIsNewestTwo ==
    /\ (Call.kind = "postsGet" /\ Call.pc = "done" /\ Call.status = 200)
          => \A i \in DOMAIN Call.body :
                IdsOf(Call.body[i].comments_preview) \in NewestTwo(Call.body[i].id)
    /\ (card.mounted /\ ~card.form.isLoading /\ card.deletingCommentId = NoComment)
          => card.commentsPreview \in NewestTwo(card.post)

----------------------------------------------------------------------------
(* PostCard: comments (SpecForm) *)

\* the comment request has ended without a comment the form can use
SubmitFailed ==
    /\ Finished(FormSlot) /\ req[FormSlot].kind = "commentPost"
    /\ ~ResponseOk(req[FormSlot].status) \/ ~req[FormSlot].joined

\* C26: when a comment submission has failed, the rest of handleSubmit sets
\* the form's error, keeps the typed content, leaves commentsCount and the
\* preview as they were and clears isLoading; a submit made while a
\* submission is in flight sends no request.
C26_FailedSubmitKeepsDraft ==
    /\ [][(/\ card.mounted /\ card.form.isLoading /\ SubmitFailed
            /\ ~card'.form.isLoading)
           => /\ card'.form.error
              /\ card'.form.content = card.form.content
              /\ card'.commentsCount = card.commentsCount
              /\ card'.commentsPreview = card.commentsPreview]_vars
    /\ [][(/\ card.mounted /\ card.form.isLoading
            /\ card'.submits = card.submits + 1)
           => req' = req /\ card'.form = card.form]_vars

\* a submission of an acceptable comment has failed: the form shows the error
\* and still holds the comment
C26_Witness ==
    /\ card.mounted /\ ~card.form.isLoading /\ card.form.error
    /\ card.form.content = Word /\ card.submits >= 1
    /\ card.added = <<>> /\ card.commentsCount = card.c0
    /\ card.commentsPreview = card.p0

\* C23: while a submitted comment is on its way, before the server has
\* responded, the card's commentsCount is already one more than before the
\* submission and the preview starts with a comment made up locally, one that
\* is not a row of the comments table.
C23_CommentAppliedAtSubmit ==
    (card.mounted /\ card.form.isLoading)
    => /\ card.commentsCount = card.c0 + Len(card.added) + 1
       /\ Len(card.commentsPreview) >= 1
       /\ card.commentsPreview[1] \notin {c.id : c \in comments}


RECURSIVE Reverse(_)
Reverse(q) == IF q = <<>> THEN <<>> ELSE Append(Reverse(Tail(q)), Head(q))

\* C8: from a card with commentsCount c and preview P, after k submissions that
\* the form completed with the created comment, commentsCount is c + k and the
\* preview is the first two of the k new comments, newest first, followed by P.
C8_CountAndPreviewAfterAdds ==
    card.mounted
        => /\ card.commentsCount = card.c0 + Len(card.added)
           /\ card.commentsPreview = Limit(Reverse(card.added) \o card.p0, 2)
           /\ Len(card.commentsPreview) <= 2

\* two comments were added to a card that showed two
C8_Witness ==
    /\ card.mounted /\ Len(card.added) = 2 /\ Len(card.p0) = 2
    /\ card.commentsCount = 5
    /\ card.commentsPreview = <<card.added[2], card.added[1]>>

====
